---- MODULE Spec2Model ----
(***************************************************************************)
(* Conway's Game of Life (cli-conway).  The repository holds five          *)
(* versions of the Grid type; each is modelled under its own prefix:       *)
(*   Bool_  grid.go               [][]byte cells, SetCell(x, y, alive bool) *)
(*   Bit_   part_000 (1..168)     []uint64 bit-packed cells                 *)
(*   Byte_  part_000 (171..320)   [][]byte cells, new grid per step         *)
(*   Map_   part_001              [][]byte cells, string-keyed cache,       *)
(*                                new grid per step                         *)
(*   Buf_   README.md (16..253)   [][]byte cells and buffer, int-keyed      *)
(*                                cache, buffer swap per step               *)
(* The five grids are driven in lock step by the same operations.          *)
(* run of main.go (part_002) creates, seeds and displays the Grid of       *)
(* grid.go; its standard output is modelled element by element.            *)
(***************************************************************************)
EXTENDS Integers, Sequences, FiniteSets, TLC

VARIABLES gBool, gBit, gByte, gMap, gBuf, src, last, gen, nset, seed, out, pc, args

vars == <<gBool, gBit, gByte, gMap, gBuf, src, last, gen, nset, seed, out, pc, args>>

\* ---- bounds ----
MaxW == 3
MaxH == 3
MaxGen == 5
MaxSets == 3
MaxAdv == 2
MaxCells == 9
MaxRW == 2
MaxRH == 2
MaxPW == 6
MaxPH == 4
MaxRunW == 2
MaxRunH == 1
MaxList == 2
MaxFW == 2
MaxFH == 2
MaxFrames == 2
MaxEW == 2
MaxBW == 2
MaxBH == 1
MaxWideW == 9
MaxWideH == 8

\* the cell values the callers pass: dead and alive
Values == {0, 1}

\* ---- helpers shared by the versions ----

\* dy is the outer loop, dx the inner one, both from -1 to 1
Offsets ==
  << <<-1, -1>>, <<0, -1>>, <<1, -1>>,
     <<-1, 0>>,  <<0, 0>>,  <<1, 0>>,
     <<-1, 1>>,  <<0, 1>>,  <<1, 1>> >>

\* make([][]byte, height) with rows make([]byte, width): all zero
ZeroCells(width, height) == [y \in 0..(height - 1) |-> [x \in 0..(width - 1) |-> 0]]

\* len(a) of a slice indexed from 0
SliceLen(a) == Cardinality(DOMAIN a)

InBounds(grid, x, y) == x >= 0 /\ x < grid.width /\ y >= 0 /\ y < grid.height

\* ---- Byte_: part_000, second file ----

Byte_NewGrid(width, height) ==
  [width |-> width, height |-> height, cells |-> ZeroCells(width, height)]

Byte_SetCell(grid, x, y, value) ==
  IF InBounds(grid, x, y)
    THEN [grid EXCEPT !.cells[y][x] = value]
    ELSE grid

Byte_GetCell(grid, x, y) ==
  IF InBounds(grid, x, y) THEN grid.cells[y][x] ELSE 0

RECURSIVE Byte_scanFrom(_, _, _, _)
Byte_scanFrom(grid, x, y, k) ==
  IF k > Len(Offsets) THEN 0
  ELSE LET dx == Offsets[k][1]
           dy == Offsets[k][2]
           newX == x + dx
           newY == y + dy
       IN IF dx = 0 /\ dy = 0 THEN Byte_scanFrom(grid, x, y, k + 1)
          ELSE IF newX >= 0 /\ newX < grid.width /\ newY >= 0 /\ newY < grid.height
            THEN grid.cells[newY][newX] + Byte_scanFrom(grid, x, y, k + 1)
            ELSE Byte_scanFrom(grid, x, y, k + 1)

Byte_scanForLifeforms(grid, x, y) == Byte_scanFrom(grid, x, y, 1)

\* Byte_step with the overcrowding test off by one (>= 3 for > 3)
Byte_stepOffByOne(st, x, y) ==
  LET lifeformCount == Byte_scanForLifeforms(st.grid, x, y)
  IN IF st.grid.cells[y][x] = 1
       THEN IF lifeformCount < 2 \/ lifeformCount >= 3
              THEN [st EXCEPT !.nextGen = Byte_SetCell(st.nextGen, x, y, 0)]
              ELSE [st EXCEPT !.nextGen = Byte_SetCell(st.nextGen, x, y, 1)]
       ELSE IF lifeformCount = 3
              THEN [st EXCEPT !.nextGen = Byte_SetCell(st.nextGen, x, y, 1)]
              ELSE [st EXCEPT !.nextGen = Byte_SetCell(st.nextGen, x, y, 0)]

\* one iteration of the loop body of BoldlyGo; st = [grid, nextGen]
Byte_step(st, x, y) ==
  LET lifeformCount == Byte_scanForLifeforms(st.grid, x, y)
  IN IF st.grid.cells[y][x] = 1
       THEN IF lifeformCount < 2 \/ lifeformCount > 3
              THEN [st EXCEPT !.nextGen = Byte_SetCell(st.nextGen, x, y, 0)]
              ELSE [st EXCEPT !.nextGen = Byte_SetCell(st.nextGen, x, y, 1)]
       ELSE IF lifeformCount = 3
              THEN [st EXCEPT !.nextGen = Byte_SetCell(st.nextGen, x, y, 1)]
              ELSE [st EXCEPT !.nextGen = Byte_SetCell(st.nextGen, x, y, 0)]

\* for x := range grid.cells[y]
RECURSIVE Byte_row(_, _, _)
Byte_row(st, y, x) ==
  IF x >= SliceLen(st.grid.cells[y]) THEN st
  ELSE Byte_row(Byte_step(st, x, y), y, x + 1)

\* for y := range grid.cells
RECURSIVE Byte_pass(_, _)
Byte_pass(st, y) ==
  IF y >= SliceLen(st.grid.cells) THEN st
  ELSE Byte_pass(Byte_row(st, y, 0), y + 1)

\* returns the source grid as the call leaves it and the grid it returns
Byte_BoldlyGo(grid) ==
  Byte_pass([grid |-> grid, nextGen |-> Byte_NewGrid(grid.width, grid.height)], 0)

\* ---- Bool_: grid.go ----

Bool_NewGrid(width, height) ==
  [width |-> width, height |-> height, cells |-> ZeroCells(width, height)]

\* Bool_SetCell with the two branches of the test of alive exchanged
Bool_SetCellInverted(grid, x, y, alive) ==
  IF x >= 0 /\ x < grid.width /\ y >= 0 /\ y < grid.height
    THEN IF alive
           THEN [grid EXCEPT !.cells[y][x] = 0]
           ELSE [grid EXCEPT !.cells[y][x] = 1]
    ELSE grid

Bool_SetCell(grid, x, y, alive) ==
  IF x >= 0 /\ x < grid.width /\ y >= 0 /\ y < grid.height
    THEN IF alive
           THEN [grid EXCEPT !.cells[y][x] = 1]
           ELSE [grid EXCEPT !.cells[y][x] = 0]
    ELSE grid

Bool_GetCell(grid, x, y) ==
  IF x >= 0 /\ x < grid.width /\ y >= 0 /\ y < grid.height
    THEN grid.cells[y][x]
    ELSE 0

\* ---- Bit_: part_000, first file.  A uint64 is the set of its set bits ----

WordBits == 64

Bit_NewGrid(width, height) ==
  LET totalCells == width * height
      numUint64s == (totalCells + 63) \div WordBits
  IN [width |-> width, height |-> height,
      cells |-> [i \in 0..(numUint64s - 1) |-> {}]]

\* Bit_getBitIndex with the row stride taken from the height
Bit_getBitIndexByHeight(grid, x, y) ==
  LET linearIndex == y * grid.height + x
  IN [uint64Index |-> linearIndex \div WordBits, bitPos |-> linearIndex % WordBits]

\* Bit_getBitIndex that takes the word of the first cell of the row
Bit_getBitIndexRowWord(grid, x, y) ==
  LET linearIndex == y * grid.width + x
  IN [uint64Index |-> (y * grid.width) \div WordBits, bitPos |-> linearIndex % WordBits]

Bit_getBitIndex(grid, x, y) ==
  LET linearIndex == y * grid.width + x
  IN [uint64Index |-> linearIndex \div WordBits, bitPos |-> linearIndex % WordBits]

\* Bit_SetCell without the test x < width: a column past the right edge lands
\* on the next row of the flattened grid
Bit_SetCellNoRightEdge(grid, x, y, value) ==
  IF x >= 0 /\ y >= 0 /\ y < grid.height
       /\ (y * grid.width + x) \div WordBits < SliceLen(grid.cells)
    THEN LET ix == Bit_getBitIndex(grid, x, y)
         IN IF value = 1
              THEN [grid EXCEPT !.cells[ix.uint64Index] = @ \cup {ix.bitPos}]
              ELSE [grid EXCEPT !.cells[ix.uint64Index] = @ \ {ix.bitPos}]
    ELSE grid

Bit_SetCell(grid, x, y, value) ==
  IF x >= 0 /\ x < grid.width /\ y >= 0 /\ y < grid.height
    THEN LET ix == Bit_getBitIndex(grid, x, y)
         IN IF value = 1
              THEN [grid EXCEPT !.cells[ix.uint64Index] = @ \cup {ix.bitPos}]
              ELSE [grid EXCEPT !.cells[ix.uint64Index] = @ \ {ix.bitPos}]
    ELSE grid

Bit_GetCell(grid, x, y) ==
  IF x >= 0 /\ x < grid.width /\ y >= 0 /\ y < grid.height
    THEN LET ix == Bit_getBitIndex(grid, x, y)
         IN IF ix.bitPos \in grid.cells[ix.uint64Index] THEN 1 ELSE 0
    ELSE 0

\* Bit_scanFrom on a torus: the neighbours wrap around to the opposite edge
RECURSIVE Bit_scanFromWrap(_, _, _, _)
Bit_scanFromWrap(grid, x, y, k) ==
  IF k > Len(Offsets) THEN 0
  ELSE LET dx == Offsets[k][1]
           dy == Offsets[k][2]
           newX == (x + dx + grid.width) % grid.width
           newY == (y + dy + grid.height) % grid.height
       IN IF dx = 0 /\ dy = 0 THEN Bit_scanFromWrap(grid, x, y, k + 1)
          ELSE Bit_GetCell(grid, newX, newY) + Bit_scanFromWrap(grid, x, y, k + 1)

RECURSIVE Bit_scanFrom(_, _, _, _)
Bit_scanFrom(grid, x, y, k) ==
  IF k > Len(Offsets) THEN 0
  ELSE LET dx == Offsets[k][1]
           dy == Offsets[k][2]
           newX == x + dx
           newY == y + dy
       IN IF dx = 0 /\ dy = 0 THEN Bit_scanFrom(grid, x, y, k + 1)
          ELSE IF newX >= 0 /\ newX < grid.width /\ newY >= 0 /\ newY < grid.height
            THEN Bit_GetCell(grid, newX, newY) + Bit_scanFrom(grid, x, y, k + 1)
            ELSE Bit_scanFrom(grid, x, y, k + 1)

Bit_scanForLifeforms(grid, x, y) == Bit_scanFrom(grid, x, y, 1)

Bit_step(st, x, y) ==
  LET lifeformCount == Bit_scanForLifeforms(st.grid, x, y)
      currentCell == Bit_GetCell(st.grid, x, y)
  IN IF currentCell = 1
       THEN IF lifeformCount < 2 \/ lifeformCount > 3
              THEN [st EXCEPT !.nextGen = Bit_SetCell(st.nextGen, x, y, 0)]
              ELSE [st EXCEPT !.nextGen = Bit_SetCell(st.nextGen, x, y, 1)]
       ELSE IF lifeformCount = 3
              THEN [st EXCEPT !.nextGen = Bit_SetCell(st.nextGen, x, y, 1)]
              ELSE [st EXCEPT !.nextGen = Bit_SetCell(st.nextGen, x, y, 0)]

\* for x := 0; x < grid.width; x++
RECURSIVE Bit_row(_, _, _)
Bit_row(st, y, x) ==
  IF x >= st.grid.width THEN st
  ELSE Bit_row(Bit_step(st, x, y), y, x + 1)

\* for y := 0; y < grid.height; y++
RECURSIVE Bit_pass(_, _)
Bit_pass(st, y) ==
  IF y >= st.grid.height THEN st
  ELSE Bit_pass(Bit_row(st, y, 0), y + 1)

Bit_BoldlyGo(grid) ==
  Bit_pass([grid |-> grid, nextGen |-> Bit_NewGrid(grid.width, grid.height)], 0)

\* ---- Go maps: a function on the keys present; a missing key reads as zero ----

EmptyMap == << >>

MapPut(m, k, v) == (k :> v) @@ m

MapInt(m, k) == IF k \in DOMAIN m THEN m[k] ELSE 0

MapBool(m, k) == IF k \in DOMAIN m THEN m[k] ELSE FALSE

\* ---- Map_: part_001 ----

Map_NewGrid(width, height) ==
  [width |-> width, height |-> height, cells |-> ZeroCells(width, height),
   neighborCache |-> EmptyMap, cacheValid |-> EmptyMap]

\* fmt.Sprintf("%d,%d", x, y)
Map_getCacheKey(grid, x, y) == ToString(x) \o "," \o ToString(y)

RECURSIVE Map_invalidateFrom(_, _, _, _)
Map_invalidateFrom(grid, x, y, k) ==
  IF k > Len(Offsets) THEN grid
  ELSE LET newX == x + Offsets[k][1]
           newY == y + Offsets[k][2]
       IN IF newX >= 0 /\ newX < grid.width /\ newY >= 0 /\ newY < grid.height
            THEN Map_invalidateFrom(
                   [grid EXCEPT !.cacheValid =
                      MapPut(@, Map_getCacheKey(grid, newX, newY), FALSE)],
                   x, y, k + 1)
            ELSE Map_invalidateFrom(grid, x, y, k + 1)

Map_invalidateNeighborCache(grid, x, y) == Map_invalidateFrom(grid, x, y, 1)

Map_SetCell(grid, x, y, value) ==
  IF x >= 0 /\ x < grid.width /\ y >= 0 /\ y < grid.height
    THEN LET oldValue == grid.cells[y][x]
             written == [grid EXCEPT !.cells[y][x] = value]
         IN IF oldValue # value
              THEN Map_invalidateNeighborCache(written, x, y)
              ELSE written
    ELSE grid

Map_GetCell(grid, x, y) ==
  IF x >= 0 /\ x < grid.width /\ y >= 0 /\ y < grid.height
    THEN grid.cells[y][x]
    ELSE 0

RECURSIVE Map_scanFrom(_, _, _, _)
Map_scanFrom(grid, x, y, k) ==
  IF k > Len(Offsets) THEN 0
  ELSE LET dx == Offsets[k][1]
           dy == Offsets[k][2]
           newX == x + dx
           newY == y + dy
       IN IF dx = 0 /\ dy = 0 THEN Map_scanFrom(grid, x, y, k + 1)
          ELSE IF newX >= 0 /\ newX < grid.width /\ newY >= 0 /\ newY < grid.height
            THEN grid.cells[newY][newX] + Map_scanFrom(grid, x, y, k + 1)
            ELSE Map_scanFrom(grid, x, y, k + 1)

\* returns the count and the grid with the cache as the call leaves it
Map_scanForLifeforms(grid, x, y) ==
  LET key == Map_getCacheKey(grid, x, y)
  IN IF key \in DOMAIN grid.cacheValid /\ grid.cacheValid[key]
       THEN [grid |-> grid, count |-> MapInt(grid.neighborCache, key)]
       ELSE LET lifeformCount == Map_scanFrom(grid, x, y, 1)
            IN [grid |-> [grid EXCEPT
                            !.neighborCache = MapPut(@, key, lifeformCount),
                            !.cacheValid = MapPut(@, key, TRUE)],
                count |-> lifeformCount]

\* Map_step with the birth test off by one (>= 2 for == 3)
Map_stepEarlyBirth(st, x, y) ==
  LET scan == Map_scanForLifeforms(st.grid, x, y)
      lifeformCount == scan.count
      currentState == scan.grid.cells[y][x]
      newState == IF currentState = 1
                    THEN IF lifeformCount < 2 \/ lifeformCount > 3
                           THEN 0 ELSE currentState
                    ELSE IF lifeformCount >= 2 THEN 1 ELSE currentState
  IN [grid |-> scan.grid,
      nextGen |-> [st.nextGen EXCEPT !.cells[y][x] = newState],
      changedCells |-> IF currentState # newState
                         THEN st.changedCells \cup {Map_getCacheKey(scan.grid, x, y)}
                         ELSE st.changedCells]

\* first loop of BoldlyGo; st = [grid, nextGen, changedCells]
Map_step(st, x, y) ==
  LET scan == Map_scanForLifeforms(st.grid, x, y)
      lifeformCount == scan.count
      currentState == scan.grid.cells[y][x]
      newState == IF currentState = 1
                    THEN IF lifeformCount < 2 \/ lifeformCount > 3
                           THEN 0 ELSE currentState
                    ELSE IF lifeformCount = 3 THEN 1 ELSE currentState
  IN [grid |-> scan.grid,
      nextGen |-> [st.nextGen EXCEPT !.cells[y][x] = newState],
      changedCells |-> IF currentState # newState
                         THEN st.changedCells \cup {Map_getCacheKey(scan.grid, x, y)}
                         ELSE st.changedCells]

\* for x := range grid.cells[y]
RECURSIVE Map_row(_, _, _)
Map_row(st, y, x) ==
  IF x >= SliceLen(st.grid.cells[y]) THEN st
  ELSE Map_row(Map_step(st, x, y), y, x + 1)

\* for y := range grid.cells
RECURSIVE Map_pass(_, _)
Map_pass(st, y) ==
  IF y >= SliceLen(st.grid.cells) THEN st
  ELSE Map_pass(Map_row(st, y, 0), y + 1)

\* Map_hasChangedNeighbor looking at the row above and the row below only
Map_hasChangedNeighborRows(grid, changedCells, x, y) ==
  \E k \in 1..Len(Offsets) :
    /\ Offsets[k][2] # 0
    /\ Map_getCacheKey(grid, x + Offsets[k][1], y + Offsets[k][2]) \in changedCells

Map_hasChangedNeighbor(grid, changedCells, x, y) ==
  \E k \in 1..Len(Offsets) :
    /\ ~(Offsets[k][1] = 0 /\ Offsets[k][2] = 0)
    /\ Map_getCacheKey(grid, x + Offsets[k][1], y + Offsets[k][2]) \in changedCells

\* second loop of BoldlyGo: carry the entries of unchanged regions forward
Map_carry(st, x, y) ==
  LET key == Map_getCacheKey(st.grid, x, y)
  IN IF ~Map_hasChangedNeighbor(st.grid, st.changedCells, x, y)
        /\ MapBool(st.grid.cacheValid, key)
       THEN [st EXCEPT
               !.nextGen.neighborCache = MapPut(@, key, MapInt(st.grid.neighborCache, key)),
               !.nextGen.cacheValid = MapPut(@, key, TRUE)]
       ELSE st

\* for x := 0; x < grid.width; x++
RECURSIVE Map_carryRow(_, _, _)
Map_carryRow(st, y, x) ==
  IF x >= st.grid.width THEN st
  ELSE Map_carryRow(Map_carry(st, x, y), y, x + 1)

\* for y := 0; y < grid.height; y++
RECURSIVE Map_prePopulate(_, _)
Map_prePopulate(st, y) ==
  IF y >= st.grid.height THEN st
  ELSE Map_prePopulate(Map_carryRow(st, y, 0), y + 1)

Map_BoldlyGo(grid) ==
  LET st0 == [grid |-> grid,
              nextGen |-> Map_NewGrid(grid.width, grid.height),
              changedCells |-> {}]
  IN Map_prePopulate(Map_pass(st0, 0), 0)

\* ---- Buf_: README.md.  cells and buffer are slices: references (0 or 1)
\* ---- into arr, the two arrays NewGrid allocates

Buf_NewGrid(width, height) ==
  [width |-> width, height |-> height,
   arr |-> [r \in {0, 1} |-> ZeroCells(width, height)],
   cells |-> 0, buffer |-> 1,
   neighborCache |-> EmptyMap, cacheValid |-> EmptyMap]

Buf_getCacheKey(grid, x, y) == y * grid.width + x

\* Buf_invalidateFrom that skips the centre cell, as the neighbour scan does
RECURSIVE Buf_invalidateFromSkipCentre(_, _, _, _)
Buf_invalidateFromSkipCentre(grid, x, y, k) ==
  IF k > Len(Offsets) THEN grid
  ELSE LET newX == x + Offsets[k][1]
           newY == y + Offsets[k][2]
       IN IF ~(Offsets[k][1] = 0 /\ Offsets[k][2] = 0)
               /\ newX >= 0 /\ newX < grid.width /\ newY >= 0 /\ newY < grid.height
            THEN Buf_invalidateFromSkipCentre(
                   [grid EXCEPT !.cacheValid =
                      MapPut(@, Buf_getCacheKey(grid, newX, newY), FALSE)],
                   x, y, k + 1)
            ELSE Buf_invalidateFromSkipCentre(grid, x, y, k + 1)

RECURSIVE Buf_invalidateFrom(_, _, _, _)
Buf_invalidateFrom(grid, x, y, k) ==
  IF k > Len(Offsets) THEN grid
  ELSE LET newX == x + Offsets[k][1]
           newY == y + Offsets[k][2]
       IN IF newX >= 0 /\ newX < grid.width /\ newY >= 0 /\ newY < grid.height
            THEN Buf_invalidateFrom(
                   [grid EXCEPT !.cacheValid =
                      MapPut(@, Buf_getCacheKey(grid, newX, newY), FALSE)],
                   x, y, k + 1)
            ELSE Buf_invalidateFrom(grid, x, y, k + 1)

Buf_invalidateNeighborCache(grid, x, y) == Buf_invalidateFrom(grid, x, y, 1)

Buf_SetCell(grid, x, y, value) ==
  IF x >= 0 /\ x < grid.width /\ y >= 0 /\ y < grid.height
    THEN LET oldValue == grid.arr[grid.cells][y][x]
             written == [grid EXCEPT !.arr[grid.cells][y][x] = value]
         IN IF oldValue # value
              THEN Buf_invalidateNeighborCache(written, x, y)
              ELSE written
    ELSE grid

Buf_GetCell(grid, x, y) ==
  IF x >= 0 /\ x < grid.width /\ y >= 0 /\ y < grid.height
    THEN grid.arr[grid.cells][y][x]
    ELSE 0

\* Buf_swapBuffers that makes the buffer current and keeps writing into it
Buf_swapBuffersAliased(grid) == [grid EXCEPT !.cells = grid.buffer]

Buf_swapBuffers(grid) == [grid EXCEPT !.cells = grid.buffer, !.buffer = grid.cells]

RECURSIVE Buf_scanFrom(_, _, _, _)
Buf_scanFrom(grid, x, y, k) ==
  IF k > Len(Offsets) THEN 0
  ELSE LET dx == Offsets[k][1]
           dy == Offsets[k][2]
           newX == x + dx
           newY == y + dy
       IN IF dx = 0 /\ dy = 0 THEN Buf_scanFrom(grid, x, y, k + 1)
          ELSE IF newX >= 0 /\ newX < grid.width /\ newY >= 0 /\ newY < grid.height
            THEN grid.arr[grid.cells][newY][newX] + Buf_scanFrom(grid, x, y, k + 1)
            ELSE Buf_scanFrom(grid, x, y, k + 1)

Buf_scanForLifeforms(grid, x, y) ==
  LET key == Buf_getCacheKey(grid, x, y)
  IN IF key \in DOMAIN grid.cacheValid /\ grid.cacheValid[key]
       THEN [grid |-> grid, count |-> MapInt(grid.neighborCache, key)]
       ELSE LET lifeformCount == Buf_scanFrom(grid, x, y, 1)
            IN [grid |-> [grid EXCEPT
                            !.neighborCache = MapPut(@, key, lifeformCount),
                            !.cacheValid = MapPut(@, key, TRUE)],
                count |-> lifeformCount]

\* Buf_step writing the new state into cells, the array being read
Buf_stepInPlace(st, x, y) ==
  LET scan == Buf_scanForLifeforms(st.grid, x, y)
      lifeformCount == scan.count
      currentState == scan.grid.arr[scan.grid.cells][y][x]
      newState == IF currentState = 1
                    THEN IF lifeformCount < 2 \/ lifeformCount > 3
                           THEN 0 ELSE currentState
                    ELSE IF lifeformCount = 3 THEN 1 ELSE currentState
  IN [grid |-> [scan.grid EXCEPT !.arr[scan.grid.cells][y][x] = newState],
      changedCells |-> IF currentState # newState
                         THEN st.changedCells \cup {Buf_getCacheKey(scan.grid, x, y)}
                         ELSE st.changedCells]

\* first loop of BoldlyGo; st = [grid, changedCells]
Buf_step(st, x, y) ==
  LET scan == Buf_scanForLifeforms(st.grid, x, y)
      lifeformCount == scan.count
      currentState == scan.grid.arr[scan.grid.cells][y][x]
      newState == IF currentState = 1
                    THEN IF lifeformCount < 2 \/ lifeformCount > 3
                           THEN 0 ELSE currentState
                    ELSE IF lifeformCount = 3 THEN 1 ELSE currentState
  IN [grid |-> [scan.grid EXCEPT !.arr[scan.grid.buffer][y][x] = newState],
      changedCells |-> IF currentState # newState
                         THEN st.changedCells \cup {Buf_getCacheKey(scan.grid, x, y)}
                         ELSE st.changedCells]

\* for x := range grid.cells[y]
RECURSIVE Buf_row(_, _, _)
Buf_row(st, y, x) ==
  IF x >= SliceLen(st.grid.arr[st.grid.cells][y]) THEN st
  ELSE Buf_row(Buf_step(st, x, y), y, x + 1)

\* for y := range grid.cells
RECURSIVE Buf_pass(_, _)
Buf_pass(st, y) ==
  IF y >= SliceLen(st.grid.arr[st.grid.cells]) THEN st
  ELSE Buf_pass(Buf_row(st, y, 0), y + 1)

\* Buf_invalidateChanged with the column and the row of the key exchanged
RECURSIVE Buf_invalidateChangedSwapped(_)
Buf_invalidateChangedSwapped(st) ==
  IF st.changedCells = {} THEN st
  ELSE LET key == CHOOSE k \in st.changedCells : \A j \in st.changedCells : k <= j
           x == key \div st.grid.width
           y == key % st.grid.width
       IN Buf_invalidateChangedSwapped(
            [grid |-> Buf_invalidateNeighborCache(st.grid, x, y),
             changedCells |-> st.changedCells \ {key}])

\* for key := range changedCells: every iteration only stores false, so the
\* order of the iteration does not matter; st = [grid, changedCells] holds the
\* keys not yet visited
RECURSIVE Buf_invalidateChanged(_)
Buf_invalidateChanged(st) ==
  IF st.changedCells = {} THEN st
  ELSE LET key == CHOOSE k \in st.changedCells : \A j \in st.changedCells : k <= j
           x == key % st.grid.width
           y == key \div st.grid.width
       IN Buf_invalidateChanged(
            [grid |-> Buf_invalidateNeighborCache(st.grid, x, y),
             changedCells |-> st.changedCells \ {key}])

\* the last loop of BoldlyGo: its only branch is empty
Buf_prePopulate(grid, changedCells) == grid

\* Buf_BoldlyGo that keeps no entry valid for the next generation
Buf_BoldlyGoForgetful(grid) ==
  LET st == Buf_pass([grid |-> grid, changedCells |-> {}], 0)
      swapped == [st EXCEPT !.grid = Buf_swapBuffers(st.grid)]
  IN [Buf_invalidateChanged(swapped).grid EXCEPT !.cacheValid = EmptyMap]

Buf_BoldlyGo(grid) ==
  LET st == Buf_pass([grid |-> grid, changedCells |-> {}], 0)
      swapped == [st EXCEPT !.grid = Buf_swapBuffers(st.grid)]
  IN Buf_prePopulate(Buf_invalidateChanged(swapped).grid, st.changedCells)

\* ---- Randomize.  hit[y][x] is the outcome of (x+y+int(time.Now().UnixNano()))%3 == 0
\* ---- for the cell, which depends on the clock: any outcome is possible

RandomCells(grid, hit) ==
  [y \in 0..(grid.height - 1) |->
     [x \in 0..(grid.width - 1) |-> IF hit[y][x] THEN 1 ELSE 0]]

Bool_Randomize(grid, hit) == [grid EXCEPT !.cells = RandomCells(grid, hit)]

Byte_Randomize(grid, hit) == [grid EXCEPT !.cells = RandomCells(grid, hit)]

Map_Randomize(grid, hit) == [grid EXCEPT !.cells = RandomCells(grid, hit)]

Buf_Randomize(grid, hit) == [grid EXCEPT !.arr[grid.cells] = RandomCells(grid, hit)]

RECURSIVE Bit_randomizeRow(_, _, _, _)
Bit_randomizeRow(grid, hit, y, x) ==
  IF x >= grid.width THEN grid
  ELSE Bit_randomizeRow(Bit_SetCell(grid, x, y, IF hit[y][x] THEN 1 ELSE 0), hit, y, x + 1)

RECURSIVE Bit_randomizeFrom(_, _, _)
Bit_randomizeFrom(grid, hit, y) ==
  IF y >= grid.height THEN grid
  ELSE Bit_randomizeFrom(Bit_randomizeRow(grid, hit, y, 0), hit, y + 1)

Bit_Randomize(grid, hit) == Bit_randomizeFrom(grid, hit, 0)

\* ---- rendering: Display of grid.go, MakeItSo of the other versions ----

\* Standard output is a sequence with one element per escape sequence, glyph,
\* space or line end; a Printf message is one element followed by a line end.
CursorHome == "ESC[H"
ClearScreen == "ESC[2J"
TopLeft == "U+250C"
TopRight == "U+2510"
BottomLeft == "U+2514"
BottomRight == "U+2518"
Horizontal == "U+2500"
Vertical == "U+2502"
FullBlock == "U+2588"
Space == " "
Newline == "\n"

\* for i := 0; i < n; i++ { fmt.Print(Horizontal) }, from i on
RECURSIVE HorizontalRun(_, _)
HorizontalRun(n, i) ==
  IF i < n THEN <<Horizontal>> \o HorizontalRun(n, i + 1) ELSE << >>

\* for x := 0; x < width; x++: the glyph of the cell, then a space; from x on
RECURSIVE RowGlyphs(_, _, _)
RowGlyphs(alive, width, x) ==
  IF x < width
    THEN <<IF alive[x] THEN FullBlock ELSE Space, Space>> \o RowGlyphs(alive, width, x + 1)
    ELSE << >>

\* for y := 0; y < height; y++: the border glyph and a space, the cells of the
\* row, the border glyph and the line end; from y on
RECURSIVE ContentRows(_, _, _, _)
ContentRows(alive, width, height, y) ==
  IF y < height
    THEN <<Vertical, Space>> \o RowGlyphs(alive[y], width, 0) \o <<Vertical, Newline>>
           \o ContentRows(alive, width, height, y + 1)
    ELSE << >>

\* the frame with the top border one glyph short
FrameShortTop(alive, width, height) ==
  <<TopLeft>> \o HorizontalRun(width * 2, 0) \o <<TopRight, Newline>>
    \o ContentRows(alive, width, height, 0)
    \o <<BottomLeft>> \o HorizontalRun(width * 2 + 1, 0) \o <<BottomRight, Newline>>

\* top border, content rows, bottom border; alive[y][x] is the outcome of the
\* version's test of the cell against 1
Frame(alive, width, height) ==
  <<TopLeft>> \o HorizontalRun(width * 2 + 1, 0) \o <<TopRight, Newline>>
    \o ContentRows(alive, width, height, 0)
    \o <<BottomLeft>> \o HorizontalRun(width * 2 + 1, 0) \o <<BottomRight, Newline>>

\* g.cells[y][x] == 1 for every cell
Bool_alive(grid) ==
  [y \in 0..(grid.height - 1) |-> [x \in 0..(grid.width - 1) |-> grid.cells[y][x] = 1]]

\* fmt.Print("\033[H\033[2J"), then the frame
Bool_Display(grid) ==
  <<CursorHome, ClearScreen>> \o Frame(Bool_alive(grid), grid.width, grid.height)

\* grid.GetCell(x, y) == 1 for every cell
Bit_alive(grid) ==
  [y \in 0..(grid.height - 1) |->
     [x \in 0..(grid.width - 1) |-> Bit_GetCell(grid, x, y) = 1]]

\* fmt.Print("\033[H"), then the frame
Bit_MakeItSo(grid) == <<CursorHome>> \o Frame(Bit_alive(grid), grid.width, grid.height)

Byte_alive(grid) ==
  [y \in 0..(grid.height - 1) |-> [x \in 0..(grid.width - 1) |-> grid.cells[y][x] = 1]]

Byte_MakeItSo(grid) == <<CursorHome>> \o Frame(Byte_alive(grid), grid.width, grid.height)

Map_alive(grid) ==
  [y \in 0..(grid.height - 1) |-> [x \in 0..(grid.width - 1) |-> grid.cells[y][x] = 1]]

Map_MakeItSo(grid) == <<CursorHome>> \o Frame(Map_alive(grid), grid.width, grid.height)

Buf_alive(grid) ==
  [y \in 0..(grid.height - 1) |->
     [x \in 0..(grid.width - 1) |-> grid.arr[grid.cells][y][x] = 1]]

Buf_MakeItSo(grid) == <<CursorHome>> \o Frame(Buf_alive(grid), grid.width, grid.height)

\* ---- the state machine: the five grids under the same operations ----

NoOp == [op |-> "NewGrid", x |-> 0, y |-> 0, v |-> 0]

\* the seeding loop of run: SetCell(x, y, alive) for every coordinate of the
\* list, here the cells of live in row order
RECURSIVE Seeded(_, _)
Seeded(grids, live) ==
  IF live = {} THEN grids
  ELSE LET c == CHOOSE a \in live :
                  \A b \in live : a[2] < b[2] \/ (a[2] = b[2] /\ a[1] <= b[1])
       IN Seeded([bool |-> Bool_SetCell(grids.bool, c[1], c[2], TRUE),
                  bit |-> Bit_SetCell(grids.bit, c[1], c[2], 1),
                  byte |-> Byte_SetCell(grids.byte, c[1], c[2], 1),
                  map |-> Map_SetCell(grids.map, c[1], c[2], 1),
                  buf |-> Buf_SetCell(grids.buf, c[1], c[2], 1)],
                 live \ {c})

NewGrids(width, height) ==
  [bool |-> Bool_NewGrid(width, height),
   bit |-> Bit_NewGrid(width, height),
   byte |-> Byte_NewGrid(width, height),
   map |-> Map_NewGrid(width, height),
   buf |-> Buf_NewGrid(width, height)]

\* nothing written to standard output yet, one stream per version
NoOutput == [bool |-> << >>, bit |-> << >>, byte |-> << >>, map |-> << >>, buf |-> << >>]

\* the grids are driven directly, without the command line of main.go
NoArgs == [width |-> 0, height |-> 0, random |-> FALSE, cells |-> [t |-> "null", entries |-> << >>]]

\* NewGrid(width, height) followed by the seeding of the cells of live
InitSeeded(width, height, live) ==
  LET grids == Seeded(NewGrids(width, height), live)
  IN /\ gBool = grids.bool
     /\ gBit = grids.bit
     /\ gByte = grids.byte
     /\ gMap = grids.map
     /\ gBuf = grids.buf
     /\ src = [bit |-> grids.bit, byte |-> grids.byte, map |-> grids.map, again |-> grids.map]
     /\ seed = live
     /\ last = NoOp
     /\ gen = 0
     /\ nset = 0
     /\ out = NoOutput
     /\ pc = "lib"
     /\ args = NoArgs

CellsOf(width, height) == (0..(width - 1)) \X (0..(height - 1))

Init == \E width \in 1..MaxW, height \in 1..MaxH : InitSeeded(width, height, {})

\* grid.SetCell(x, y, v) on every grid; grid.go takes the value as a bool
SetCell(x, y, v) ==
  /\ nset < MaxSets
  /\ nset' = nset + 1
  /\ gBool' = Bool_SetCell(gBool, x, y, v = 1)
  /\ gBit' = Bit_SetCell(gBit, x, y, v)
  /\ gByte' = Byte_SetCell(gByte, x, y, v)
  /\ gMap' = Map_SetCell(gMap, x, y, v)
  /\ gBuf' = Buf_SetCell(gBuf, x, y, v)
  /\ last' = [op |-> "SetCell", x |-> x, y |-> y, v |-> v]
  /\ UNCHANGED <<src, gen, seed, out, pc, args>>

\* grid = grid.BoldlyGo() on the new-grid versions, grid.BoldlyGo() on the
\* double-buffered one; grid.go has no BoldlyGo.  src keeps the source grids
\* as the call leaves them, and in again the grid that the latest call on
\* the source grid of the string-keyed version returned
BoldlyGo(limit) ==
  /\ gen < limit
  /\ LET bit == Bit_BoldlyGo(gBit)
         byte == Byte_BoldlyGo(gByte)
         map == Map_BoldlyGo(gMap)
     IN /\ gBit' = bit.nextGen
        /\ gByte' = byte.nextGen
        /\ gMap' = map.nextGen
        /\ src' = [bit |-> bit.grid, byte |-> byte.grid, map |-> map.grid,
                   again |-> map.nextGen]
  /\ gBuf' = Buf_BoldlyGo(gBuf)
  /\ last' = [op |-> "BoldlyGo", x |-> 0, y |-> 0, v |-> 0]
  /\ gen' = gen + 1
  /\ UNCHANGED <<gBool, nset, seed, out, pc, args>>

\* grid.Randomize() on every grid
Randomize(hit) ==
  /\ nset < MaxSets
  /\ nset' = nset + 1
  /\ gBool' = Bool_Randomize(gBool, hit)
  /\ gBit' = Bit_Randomize(gBit, hit)
  /\ gByte' = Byte_Randomize(gByte, hit)
  /\ gMap' = Map_Randomize(gMap, hit)
  /\ gBuf' = Buf_Randomize(gBuf, hit)
  /\ last' = [op |-> "Randomize", x |-> 0, y |-> 0, v |-> 0]
  /\ UNCHANGED <<src, gen, seed, out, pc, args>>

SetAny ==
  \E x \in (-1)..gByte.width, y \in (-1)..gByte.height, v \in Values : SetCell(x, y, v)

RandomizeAny ==
  \E hit \in [0..(gByte.height - 1) -> [0..(gByte.width - 1) -> BOOLEAN]] : Randomize(hit)

\* any sequence of SetCell and BoldlyGo on a new grid
Next ==
  \/ SetAny
  \/ BoldlyGo(MaxAdv)

Spec == Init /\ [][Next]_vars

\* any sequence of SetCell, Randomize and BoldlyGo on a new grid
InitRandom == \E width \in 1..MaxRW, height \in 1..MaxRH : InitSeeded(width, height, {})

NextRandom ==
  \/ SetAny
  \/ RandomizeAny
  \/ BoldlyGo(MaxAdv)

SpecRandom == InitRandom /\ [][NextRandom]_vars

\* ---- rendering the grids generation after generation ----

\* the number of frames written to a standard output
FrameCount(o) == Cardinality({i \in 1..Len(o) : o[i] = CursorHome})

\* grid.Display() of grid.go and grid.MakeItSo() of the other versions
MakeItSo ==
  /\ FrameCount(out.bit) < MaxFrames
  /\ out' = [bool |-> out.bool \o Bool_Display(gBool),
             bit |-> out.bit \o Bit_MakeItSo(gBit),
             byte |-> out.byte \o Byte_MakeItSo(gByte),
             map |-> out.map \o Map_MakeItSo(gMap),
             buf |-> out.buf \o Buf_MakeItSo(gBuf)]
  /\ last' = [op |-> "MakeItSo", x |-> 0, y |-> 0, v |-> 0]
  /\ UNCHANGED <<gBool, gBit, gByte, gMap, gBuf, src, gen, nset, seed, pc, args>>

\* a grid of up to MaxFW x MaxFH cells seeded with any set of live cells
InitFrame ==
  \E width \in 1..MaxFW, height \in 1..MaxFH :
    \E live \in SUBSET CellsOf(width, height) : InitSeeded(width, height, live)

\* the grid is rendered and advanced in any order
NextFrame ==
  \/ MakeItSo
  \/ BoldlyGo(MaxAdv)

SpecFrame == InitFrame /\ [][NextFrame]_vars

\* ---- SetCell with any value of its parameter type ----

\* values of the type byte: dead, alive, and two values that are neither
ByteValues == {0, 1, 2, 255}

SetByte ==
  \E x \in (-1)..gByte.width, y \in (-1)..gByte.height, v \in ByteValues : SetCell(x, y, v)

InitByte == \E width \in 1..MaxBW, height \in 1..MaxBH : InitSeeded(width, height, {})

\* any sequence of SetCell with any byte, Randomize and BoldlyGo on a new grid
NextByte ==
  \/ SetByte
  \/ RandomizeAny
  \/ BoldlyGo(MaxAdv)

SpecByte == InitByte /\ [][NextByte]_vars

\* ---- grids of more than one word of the bit-packed version ----

\* the cells next to the boundary between the first word and the second,
\* and the two coordinates next to them across the left and the right edge
WordEdge(width, height) ==
  {c \in CellsOf(width, height) :
     c[2] * width + c[1] \in (WordBits - 2)..(WordBits + 1)}
    \cup {<<width, (WordBits - 1) \div width>>, <<-1, WordBits \div width>>}

SetWide ==
  \E c \in WordEdge(gByte.width, gByte.height), v \in Values : SetCell(c[1], c[2], v)

\* a new grid of MaxWideW x MaxWideH cells, more than one word
InitWide ==
  /\ MaxWideW * MaxWideH > WordBits
  /\ InitSeeded(MaxWideW, MaxWideH, {})

\* any sequence of SetCell around the word boundary and BoldlyGo
NextWide ==
  \/ SetWide
  \/ BoldlyGo(MaxAdv)

SpecWide == InitWide /\ [][NextWide]_vars

\* ---- BoldlyGo called again on the same source grid ----

\* a second grid.BoldlyGo() on the grid that the latest BoldlyGo of the
\* string-keyed version was called on, nothing having touched it in between:
\* the call finds the cache as the first call left it
BoldlyGoAgain ==
  /\ last.op = "BoldlyGo"
  /\ LET map == Map_BoldlyGo(src.map)
     IN src' = [src EXCEPT !.map = map.grid, !.again = map.nextGen]
  /\ last' = [op |-> "BoldlyGoAgain", x |-> 0, y |-> 0, v |-> 0]
  /\ UNCHANGED <<gBool, gBit, gByte, gMap, gBuf, gen, nset, seed, out, pc, args>>

\* any sequence of SetCell, Randomize and BoldlyGo on a new grid, every
\* BoldlyGo possibly called twice
NextTwice ==
  \/ SetAny
  \/ RandomizeAny
  \/ BoldlyGo(MaxAdv)
  \/ BoldlyGoAgain

SpecTwice == InitRandom /\ [][NextTwice]_vars

\* ---- grids without cells: width or height 0 ----

\* The run time faults of the grid code are an index out of range and a
\* division by zero.  An index is out of range when the bounds test of the
\* operation passes for (x, y) and the slice has no such element.
IndexFault(width, height, cells, x, y) ==
  /\ x >= 0 /\ x < width /\ y >= 0 /\ y < height
  /\ ~(y < SliceLen(cells) /\ x < SliceLen(cells[y]))

\* Bit_indexFault without the test x < width
Bit_indexFaultNoRightEdge(grid, x, y) ==
  /\ x >= 0 /\ y >= 0 /\ y < grid.height
  /\ Bit_getBitIndex(grid, x, y).uint64Index >= SliceLen(grid.cells)

\* grid.cells[uint64Index] of SetCell and GetCell of the bit-packed version
Bit_indexFault(grid, x, y) ==
  /\ x >= 0 /\ x < grid.width /\ y >= 0 /\ y < grid.height
  /\ Bit_getBitIndex(grid, x, y).uint64Index >= SliceLen(grid.cells)

\* key % grid.width and key / grid.width of BoldlyGo of the double-buffered
\* version: evaluated once per changed cell
Buf_divideFault(grid) ==
  /\ Buf_pass([grid |-> grid, changedCells |-> {}], 0).changedCells # {}
  /\ grid.width = 0

\* a grid created with width 0 or height 0, each at most MaxEW
InitEmpty ==
  \E width \in 0..MaxEW, height \in 0..MaxEW :
    /\ width = 0 \/ height = 0
    /\ InitSeeded(width, height, {})

\* any sequence of SetCell, Randomize, BoldlyGo and render on it
NextEmpty ==
  \/ SetAny
  \/ RandomizeAny
  \/ BoldlyGo(MaxAdv)
  \/ MakeItSo

SpecEmpty == InitEmpty /\ [][NextEmpty]_vars

\* ---- the command line: run of main.go on the Grid of grid.go ----

\* The text of the cells flag as the JSON decoder sees it.  A document is
\* text that does not parse ("invalid"), null, a value that is no array
\* ("number"), or an array of entries; an entry is null, a value that is no
\* array ("number"), or an array of items; an item is an integer, null, a
\* number with a fraction ("float") or a string.
JItem(t, v) == [t |-> t, v |-> v]

JEntry(t, items) == [t |-> t, items |-> items]

JDoc(t, entries) == [t |-> t, entries |-> entries]

\* decoding one item into an int: null leaves the zero value, a string or a
\* number with a fraction is a type error
Unmarshal_int(item) ==
  [err |-> item.t \notin {"int", "null"},
   v |-> IF item.t = "int" THEN item.v ELSE 0]

\* decoding one entry into a []int: null leaves the nil slice
Unmarshal_ints(entry) ==
  IF entry.t = "null" THEN [err |-> FALSE, v |-> << >>]
  ELSE IF entry.t = "array"
    THEN [err |-> \E i \in 1..Len(entry.items) : Unmarshal_int(entry.items[i]).err,
          v |-> [i \in 1..Len(entry.items) |-> Unmarshal_int(entry.items[i]).v]]
    ELSE [err |-> TRUE, v |-> << >>]

\* json.Unmarshal([]byte(cells), &cellCoords) with cellCoords a nil [][]int
Unmarshal(doc) ==
  IF doc.t = "null" THEN [err |-> FALSE, v |-> << >>]
  ELSE IF doc.t = "array"
    THEN [err |-> \E i \in 1..Len(doc.entries) : Unmarshal_ints(doc.entries[i]).err,
          v |-> [i \in 1..Len(doc.entries) |-> Unmarshal_ints(doc.entries[i]).v]]
    ELSE [err |-> TRUE, v |-> << >>]

ErrorMessage == "Error parsing cells"

WarningMessage(x, y, width, height) ==
  "Warning: Cell coordinate [" \o ToString(x) \o "," \o ToString(y)
    \o "] is outside grid bounds (" \o ToString(width) \o "x" \o ToString(height)
    \o "). Unceremoniously skipping it."

DisplayedMessage(width, height) ==
  "Grid " \o ToString(width) \o "x" \o ToString(height)
    \o " displayed! Press Enter to exit..."

\* the loop over cellCoords that stops at the first coordinate out of range
RECURSIVE run_seedStopping(_, _, _, _, _)
run_seedStopping(st, cellCoords, width, height, i) ==
  IF i > Len(cellCoords) THEN st
  ELSE LET coord == cellCoords[i]
       IN IF Len(coord) = 2
            THEN LET x == coord[1]
                     y == coord[2]
                 IN IF x < 0 \/ x >= width \/ y < 0 \/ y >= height
                      THEN [st EXCEPT !.out = @ \o <<WarningMessage(x, y, width, height), Newline>>]
                      ELSE run_seedStopping([st EXCEPT !.grid = Bool_SetCell(@, x, y, TRUE)],
                                            cellCoords, width, height, i + 1)
            ELSE run_seedStopping(st, cellCoords, width, height, i + 1)

\* for _, coord := range cellCoords, from index i on; st = [grid, out]
RECURSIVE run_seed(_, _, _, _, _)
run_seed(st, cellCoords, width, height, i) ==
  IF i > Len(cellCoords) THEN st
  ELSE LET coord == cellCoords[i]
       IN IF Len(coord) = 2
            THEN LET x == coord[1]
                     y == coord[2]
                 IN IF x < 0 \/ x >= width \/ y < 0 \/ y >= height
                      THEN run_seed([st EXCEPT !.out = @ \o <<WarningMessage(x, y, width, height), Newline>>],
                                    cellCoords, width, height, i + 1)
                      ELSE run_seed([st EXCEPT !.grid = Bool_SetCell(@, x, y, TRUE)],
                                    cellCoords, width, height, i + 1)
            ELSE run_seed(st, cellCoords, width, height, i + 1)

\* grid.Display() and the closing message, after which run waits in Scanln
run_display(st, width, height) ==
  [st EXCEPT !.out = @ \o Bool_Display(st.grid) \o <<DisplayedMessage(width, height), Newline>>]

\* run with the random flag set
RunRandom ==
  /\ pc = "run"
  /\ args.random
  /\ \E hit \in [0..(args.height - 1) -> [0..(args.width - 1) -> BOOLEAN]] :
       LET grid == Bool_Randomize(Bool_NewGrid(args.width, args.height), hit)
           st == run_display([grid |-> grid, out |-> out.bool], args.width, args.height)
       IN /\ gBool' = st.grid
          /\ out' = [out EXCEPT !.bool = st.out]
  /\ pc' = "scan"
  /\ UNCHANGED <<gBit, gByte, gMap, gBuf, src, last, gen, nset, seed, args>>

\* run with the cells flag: a parse error is printed and run returns,
\* otherwise the grid is seeded and displayed
RunCells ==
  /\ pc = "run"
  /\ ~args.random
  /\ LET grid == Bool_NewGrid(args.width, args.height)
         parsed == Unmarshal(args.cells)
     IN IF parsed.err
          THEN /\ gBool' = grid
               /\ out' = [out EXCEPT !.bool = @ \o <<ErrorMessage, Newline>>]
               /\ pc' = "done"
          ELSE LET st == run_display(run_seed([grid |-> grid, out |-> out.bool], parsed.v,
                                              args.width, args.height, 1),
                                     args.width, args.height)
               IN /\ gBool' = st.grid
                  /\ out' = [out EXCEPT !.bool = st.out]
                  /\ pc' = "scan"
  /\ UNCHANGED <<gBit, gByte, gMap, gBuf, src, last, gen, nset, seed, args>>

\* fmt.Scanln() returns and so does run
PressEnter ==
  /\ pc = "scan"
  /\ pc' = "done"
  /\ UNCHANGED <<gBool, gBit, gByte, gMap, gBuf, src, last, gen, nset, seed, out, args>>

\* the items of a coordinate: the integers around the grid
Coordinates(width, height) == ((-1)..width) \X ((-1)..height)

\* entries that are no pair of integers
OddEntries ==
  {JEntry("null", << >>), JEntry("number", << >>), JEntry("array", << >>),
   JEntry("array", <<JItem("int", 0)>>),
   JEntry("array", <<JItem("int", 0), JItem("int", 0), JItem("int", 0)>>),
   JEntry("array", <<JItem("int", 0), JItem("string", 0)>>),
   JEntry("array", <<JItem("float", 0), JItem("int", 0)>>),
   JEntry("array", <<JItem("int", 0), JItem("null", 0)>>)}

Entries(width, height) ==
  {JEntry("array", <<JItem("int", c[1]), JItem("int", c[2])>>) : c \in Coordinates(width, height)}
    \cup OddEntries

\* the texts of the cells flag: lists of at most MaxList entries, and texts
\* that are no list
Docs(width, height) ==
  {JDoc("invalid", << >>), JDoc("null", << >>), JDoc("number", << >>)}
    \cup {JDoc("array", e) : e \in UNION {[1..n -> Entries(width, height)] : n \in 0..MaxList}}

\* the program started with any flags; no grid exists yet
InitRun ==
  \E width \in 1..MaxRunW, height \in 1..MaxRunH, random \in BOOLEAN :
    \E cells \in Docs(width, height) :
      LET grids == NewGrids(0, 0)
      IN /\ gBool = grids.bool
         /\ gBit = grids.bit
         /\ gByte = grids.byte
         /\ gMap = grids.map
         /\ gBuf = grids.buf
         /\ src = [bit |-> grids.bit, byte |-> grids.byte, map |-> grids.map, again |-> grids.map]
         /\ seed = {}
         /\ last = NoOp
         /\ gen = 0
         /\ nset = 0
         /\ out = NoOutput
         /\ pc = "run"
         /\ args = [width |-> width, height |-> height, random |-> random, cells |-> cells]

NextRun ==
  \/ RunRandom
  \/ RunCells
  \/ PressEnter

SpecRun == InitRun /\ [][NextRun]_vars

\* ---- the patterns of the spec: blinker and block ----

\* three cells in a row centred at (cx, cy)
BlinkerH(cx, cy) == {<<cx - 1, cy>>, <<cx, cy>>, <<cx + 1, cy>>}

\* three cells in a column centred at (cx, cy)
BlinkerV(cx, cy) == {<<cx, cy - 1>>, <<cx, cy>>, <<cx, cy + 1>>}

\* the 2x2 block with top-left corner (bx, by)
Block(bx, by) == {<<bx, by>>, <<bx + 1, by>>, <<bx, by + 1>>, <<bx + 1, by + 1>>}

\* the centres of the horizontal blinkers that have at least one dead cell of
\* margin on every side
BlinkerCentres(width, height) == (2..(width - 3)) \X (1..(height - 2))

BlockCorners(width, height) == (0..(width - 2)) \X (0..(height - 2))

\* a grid of at most MaxCells cells seeded with any set of live cells
InitAnySeed ==
  \E width \in 1..MaxCells, height \in 1..MaxCells :
    /\ width * height <= MaxCells
    /\ \E live \in SUBSET CellsOf(width, height) : InitSeeded(width, height, live)

\* a grid of up to MaxPW x MaxPH cells seeded with a blinker or a block
InitPattern ==
  \E width \in 1..MaxPW, height \in 1..MaxPH :
    \/ \E c \in BlinkerCentres(width, height) :
         InitSeeded(width, height, BlinkerH(c[1], c[2]))
    \/ \E b \in BlockCorners(width, height) :
         InitSeeded(width, height, Block(b[1], b[2]))

InitGen == InitAnySeed \/ InitPattern

\* a seeded grid, then advanced generation after generation
NextGen == BoldlyGo(MaxGen)

SpecGen == InitGen /\ [][NextGen]_vars

\* ---- what the claims are stated in ----

\* the eight offsets of the Moore neighbourhood
Moore == (((-1)..1) \X ((-1)..1)) \ {<<0, 0>>}

\* the number of alive cells of the 2D array c among the neighbours of (x, y)
\* that lie inside [0,width) x [0,height)
LiveNeighbours(c, width, height, x, y) ==
  Cardinality({d \in Moore :
                 /\ x + d[1] \in 0..(width - 1)
                 /\ y + d[2] \in 0..(height - 1)
                 /\ c[y + d[2]][x + d[1]] = 1})

\* Conway's rules: the next state of a cell in state s with n live neighbours
ConwayNext(s, n) ==
  IF s = 1 THEN (IF n = 2 \/ n = 3 THEN 1 ELSE 0)
           ELSE (IF n = 3 THEN 1 ELSE 0)

\* what GetCell shows of a bit-packed grid, as a 2D array
BitView(grid) ==
  [y \in 0..(grid.height - 1) |-> [x \in 0..(grid.width - 1) |-> Bit_GetCell(grid, x, y)]]

\* the current cells of the double-buffered grid
BufView(grid) == grid.arr[grid.cells]

Width == gByte.width
Height == gByte.height
Cells == CellsOf(Width, Height)

\* the next generation of the 2D array c by the rules
RuleNext(c) ==
  [y \in 0..(Height - 1) |->
     [x \in 0..(Width - 1) |-> ConwayNext(c[y][x], LiveNeighbours(c, Width, Height, x, y))]]

\* C1: after one advance every cell is alive iff it was alive with 2 or 3 live
\* neighbours or dead with exactly 3; src holds the grids BoldlyGo was called on
C1_Rules ==
  last.op = "BoldlyGo" =>
    /\ gByte.cells = RuleNext(src.byte.cells)
    /\ BitView(gBit) = RuleNext(BitView(src.bit))

\* an advance in which a live cell with 4 or more neighbours died, a live cell
\* with 2 or 3 survived and a dead cell with 3 was born
C1_Witness ==
  /\ last.op = "BoldlyGo"
  /\ \E c \in Cells : /\ src.byte.cells[c[2]][c[1]] = 1
                      /\ LiveNeighbours(src.byte.cells, Width, Height, c[1], c[2]) >= 4
                      /\ gByte.cells[c[2]][c[1]] = 0
  /\ \E c \in Cells : /\ src.byte.cells[c[2]][c[1]] = 1
                      /\ LiveNeighbours(src.byte.cells, Width, Height, c[1], c[2]) \in {2, 3}
                      /\ gByte.cells[c[2]][c[1]] = 1
  /\ \E c \in Cells : /\ src.byte.cells[c[2]][c[1]] = 0
                      /\ LiveNeighbours(src.byte.cells, Width, Height, c[1], c[2]) = 3
                      /\ gByte.cells[c[2]][c[1]] = 1

\* C2: the count scanForLifeforms returns for an in-bounds cell is the number
\* of alive cells among its in-grid Moore neighbours: the cell itself is not
\* counted and nothing wraps around
C2_NeighbourCount ==
  \A c \in Cells :
    /\ Byte_scanForLifeforms(gByte, c[1], c[2])
         = LiveNeighbours(gByte.cells, Width, Height, c[1], c[2])
    /\ Bit_scanForLifeforms(gBit, c[1], c[2])
         = LiveNeighbours(BitView(gBit), Width, Height, c[1], c[2])

\* a live cell on the left edge with a live cell at the right end of its row,
\* three or more columns away, and no live neighbour
C2_Witness ==
  /\ Width >= 3
  /\ \E y \in 0..(Height - 1) :
       /\ gByte.cells[y][0] = 1
       /\ gByte.cells[y][Width - 1] = 1
       /\ Byte_scanForLifeforms(gByte, 0, y) = 0
       /\ Bit_scanForLifeforms(gBit, 0, y) = 0

\* the last operation was a SetCell inside the grid
LastSetInBounds == last.op = "SetCell" /\ InBounds(gByte, last.x, last.y)

\* the last operation was a SetCell outside the grid
LastSetOutOfBounds == last.op = "SetCell" /\ ~InBounds(gByte, last.x, last.y)

\* C3: right after an in-bounds SetCell(x, y, v), GetCell(x, y) returns v
\* (1 for alive, 0 for dead), in every version of the grid
C3_GetAfterSet ==
  LastSetInBounds =>
    /\ Bool_GetCell(gBool, last.x, last.y) = last.v
    /\ Bit_GetCell(gBit, last.x, last.y) = last.v
    /\ Byte_GetCell(gByte, last.x, last.y) = last.v
    /\ Map_GetCell(gMap, last.x, last.y) = last.v
    /\ Buf_GetCell(gBuf, last.x, last.y) = last.v

\* a cell set alive after an advance, read back as 1 from the bit-packed grid
C3_Witness ==
  /\ LastSetInBounds
  /\ last.v = 1
  /\ gen >= 1
  /\ Bit_GetCell(gBit, last.x, last.y) = 1
  /\ Bool_GetCell(gBool, last.x, last.y) = 1

\* the coordinates just outside the grid and one further out, negative ones included
Outside == (((-2)..(Width + 1)) \X ((-2)..(Height + 1))) \ Cells

OutOfBoundsDead ==
  \A c \in Outside :
    /\ Bool_GetCell(gBool, c[1], c[2]) = 0
    /\ Bit_GetCell(gBit, c[1], c[2]) = 0
    /\ Byte_GetCell(gByte, c[1], c[2]) = 0
    /\ Map_GetCell(gMap, c[1], c[2]) = 0
    /\ Buf_GetCell(gBuf, c[1], c[2]) = 0

\* C4: GetCell returns 0 at every coordinate outside the grid, and a SetCell
\* outside the grid changes no cell and no cache entry of any grid
C4_OutOfBounds ==
  [][/\ OutOfBoundsDead
     /\ OutOfBoundsDead'
     /\ LastSetOutOfBounds' => UNCHANGED <<gBool, gBit, gByte, gMap, gBuf>>]_vars

\* after a SetCell outside the grid: a live cell and a valid cache entry are
\* still there
C4_Witness ==
  /\ LastSetOutOfBounds
  /\ last.v = 1
  /\ \E c \in Cells : gByte.cells[c[2]][c[1]] = 1
  /\ \E k \in DOMAIN gBuf.cacheValid : gBuf.cacheValid[k]
  /\ \E k \in DOMAIN gMap.cacheValid : gMap.cacheValid[k]

\* C5: on a grid seeded through SetCell and advanced, in every generation the
\* count the cached scanForLifeforms returns for a cell is the count of a
\* fresh scan of the current cells; the grid BoldlyGo was called on (src.map),
\* whose cache the call filled, is held to the same
C5_CachedCountFresh ==
  \A c \in Cells :
    /\ Map_scanForLifeforms(gMap, c[1], c[2]).count
         = LiveNeighbours(gMap.cells, Width, Height, c[1], c[2])
    /\ Map_scanForLifeforms(src.map, c[1], c[2]).count
         = LiveNeighbours(src.map.cells, Width, Height, c[1], c[2])
    /\ Buf_scanForLifeforms(gBuf, c[1], c[2]).count
         = LiveNeighbours(BufView(gBuf), Width, Height, c[1], c[2])

\* the fifth generation of a pattern that is still changing, with entries
\* served from the cache of both grids
C5_Witness ==
  /\ gen >= 5
  /\ gMap.cells # src.map.cells
  /\ \E c \in Cells : gMap.cells[c[2]][c[1]] = 1
  /\ \E c \in Cells : MapBool(gMap.cacheValid, Map_getCacheKey(gMap, c[1], c[2]))
  /\ \E c \in Cells : MapBool(gBuf.cacheValid, Buf_getCacheKey(gBuf, c[1], c[2]))

\* C6: every cache entry flagged valid holds the live-neighbour count of the
\* current cells, whatever sequence of SetCell, Randomize and BoldlyGo led here
C6_ValidEntriesCurrent ==
  \A c \in Cells :
    /\ MapBool(gMap.cacheValid, Map_getCacheKey(gMap, c[1], c[2]))
         => MapInt(gMap.neighborCache, Map_getCacheKey(gMap, c[1], c[2]))
              = LiveNeighbours(gMap.cells, Width, Height, c[1], c[2])
    /\ MapBool(gBuf.cacheValid, Buf_getCacheKey(gBuf, c[1], c[2]))
         => MapInt(gBuf.neighborCache, Buf_getCacheKey(gBuf, c[1], c[2]))
              = LiveNeighbours(BufView(gBuf), Width, Height, c[1], c[2])

\* C7: an advance writes no current cell of the grid it reads.  The new-grid
\* versions leave the cells of the source grid as they were, and the grid
\* returned holds the rules applied to those cells; the double-buffered one
\* leaves the array that was current untouched and makes the other array,
\* the one it wrote, current by exchanging the two
C7_SourceNotWritten ==
  [][last'.op = "BoldlyGo" =>
       /\ src'.byte.cells = gByte.cells
       /\ src'.bit.cells = gBit.cells
       /\ src'.map.cells = gMap.cells
       /\ gByte'.cells = RuleNext(gByte.cells)
       /\ gBuf'.cells = gBuf.buffer
       /\ gBuf'.buffer = gBuf.cells
       /\ gBuf'.cells # gBuf'.buffer
       /\ gBuf'.arr[gBuf.cells] = gBuf.arr[gBuf.cells]]_vars

\* after an advance that changed the generation: the source grid and the
\* array that was current still hold the generation before
C7_Witness ==
  /\ last.op = "BoldlyGo"
  /\ gen >= 2
  /\ src.byte.cells # gByte.cells
  /\ gBuf.arr[gBuf.buffer] = src.byte.cells
  /\ gBuf.arr[gBuf.cells] # gBuf.arr[gBuf.buffer]
  /\ \E c \in Cells : gByte.cells[c[2]][c[1]] = 1

\* C8: after every operation the current cells of the double-buffered grid
\* are the cells of the grids the new-grid versions returned
C8_BufferEqualsNewGrid ==
  /\ BufView(gBuf) = gMap.cells
  /\ BufView(gBuf) = gByte.cells

\* after a second advance, with SetCell calls before it, cells are alive
C8_Witness ==
  /\ last.op = "BoldlyGo"
  /\ gen = 2
  /\ nset >= 3
  /\ \E c \in Cells : BufView(gBuf)[c[2]][c[1]] = 1

\* the cells of the 2D array c that are alive
LiveSet(c) == {a \in Cells : c[a[2]][a[1]] = 1}

\* every grid that has BoldlyGo shows exactly the live cells of live
AllShow(live) ==
  /\ LiveSet(BitView(gBit)) = live
  /\ LiveSet(gByte.cells) = live
  /\ LiveSet(gMap.cells) = live
  /\ LiveSet(BufView(gBuf)) = live

\* C9: a horizontal blinker with a dead margin is the vertical blinker through
\* the same centre after every odd number of advances and the horizontal one
\* again after every even number
C9_Blinker ==
  \A c \in BlinkerCentres(Width, Height) :
    seed = BlinkerH(c[1], c[2]) =>
      AllShow(IF gen % 2 = 1 THEN BlinkerV(c[1], c[2]) ELSE BlinkerH(c[1], c[2]))

\* a blinker seeded in a grid wider than high, back to horizontal after the
\* fourth advance
C9_Witness ==
  /\ gen = 4
  /\ Width > Height
  /\ \E c \in BlinkerCentres(Width, Height) :
       /\ seed = BlinkerH(c[1], c[2])
       /\ LiveSet(BitView(gBit)) = BlinkerH(c[1], c[2])
       /\ LiveSet(BitView(src.bit)) = BlinkerV(c[1], c[2])

\* C10: a grid whose only live cells are a 2x2 block shows the same block
\* after any number of advances, wherever the block is
C10_Block ==
  \A b \in BlockCorners(Width, Height) :
    seed = Block(b[1], b[2]) => AllShow(Block(b[1], b[2]))

\* a block in the bottom-right corner of the grid after five advances
C10_Witness ==
  /\ gen >= 5
  /\ Width >= 3
  /\ seed = Block(Width - 2, Height - 2)
  /\ LiveSet(gByte.cells) = seed
  /\ LiveSet(gMap.cells) = seed

\* ---- the command line and the rendered frame ----

\* standard output cut into its lines, the line ends dropped
RECURSIVE LinesFrom(_, _, _)
LinesFrom(o, i, line) ==
  IF i > Len(o) THEN (IF line = << >> THEN << >> ELSE <<line>>)
  ELSE IF o[i] = Newline THEN <<line>> \o LinesFrom(o, i + 1, << >>)
  ELSE LinesFrom(o, i + 1, Append(line, o[i]))

Lines(o) == LinesFrom(o, 1, << >>)

\* the cells flag holds a list of pairs of integers
WellFormed(doc) ==
  /\ doc.t = "array"
  /\ \A i \in 1..Len(doc.entries) :
       /\ doc.entries[i].t = "array"
       /\ Len(doc.entries[i].items) = 2
       /\ \A k \in 1..2 : doc.entries[i].items[k].t = "int"

\* the pairs of a well-formed list, in order
PairsOf(doc) ==
  [i \in 1..Len(doc.entries) |-> <<doc.entries[i].items[1].v, doc.entries[i].items[2].v>>]

InRange(p) == p[1] \in 0..(args.width - 1) /\ p[2] \in 0..(args.height - 1)

OutOfRange(p) == ~InRange(p)

\* the cells that the content rows of a list of lines show alive, the first
\* content row being line number first
ShownAlive(ls, first, width, height) ==
  {c \in CellsOf(width, height) : ls[first + c[2]][2 + 2 * c[1] + 1] = FullBlock}

\* run has come to its end or waits for the Enter key
RunOver == pc \in {"scan", "done"}

\* C11: when run is given a list of pairs, it prints one warning per pair
\* outside [0,width) x [0,height), in the order of the list, goes on after
\* each of them, sets every pair in range alive and then displays the grid:
\* the cells alive in the grid and shown alive in the frame are exactly the
\* pairs in range.
C11_SeedFromList ==
  (RunOver /\ ~args.random /\ WellFormed(args.cells)) =>
    LET ls == Lines(out.bool)
        pairs == PairsOf(args.cells)
        skipped == SelectSeq(pairs, OutOfRange)
        n == Len(skipped)
        inRange == {pairs[i] : i \in {j \in 1..Len(pairs) : InRange(pairs[j])}}
    IN /\ Len(ls) = n + args.height + 3
       /\ \A i \in 1..n :
            ls[i] = <<WarningMessage(skipped[i][1], skipped[i][2], args.width, args.height)>>
       /\ {c \in CellsOf(args.width, args.height) : Bool_GetCell(gBool, c[1], c[2]) = 1} = inRange
       /\ ShownAlive(ls, n + 2, args.width, args.height) = inRange
       /\ ls[Len(ls)] = <<DisplayedMessage(args.width, args.height)>>

\* a list whose first pair is out of range and whose second pair is in range
\* has been processed: one warning, one live cell
C11_Witness ==
  /\ RunOver
  /\ ~args.random
  /\ WellFormed(args.cells)
  /\ Len(args.cells.entries) = 2
  /\ OutOfRange(PairsOf(args.cells)[1])
  /\ InRange(PairsOf(args.cells)[2])
  /\ Bool_GetCell(gBool, PairsOf(args.cells)[2][1], PairsOf(args.cells)[2][2]) = 1
  /\ Len(Lines(out.bool)) = args.height + 4

\* some frame has been written to the standard output of run
Displayed == \E i \in 1..Len(out.bool) : out.bool[i] = TopLeft

\* C12: whenever the cells flag is malformed (no list, or a list with an
\* entry that is not a pair of integers), run prints the parse error and
\* never displays the grid.
C12_MalformedNotDisplayed ==
  (RunOver /\ ~args.random /\ ~WellFormed(args.cells)) =>
    /\ \E i \in 1..Len(out.bool) : out.bool[i] = ErrorMessage
    /\ ~Displayed

NotEscape(e) == e \notin {CursorHome, ClearScreen}

\* a run of n horizontal line glyphs
Rule(n) == [i \in 1..n |-> Horizontal]

\* line number k of the lines ls is a content row of a frame of the given width
IsContentRow(ls, k, width) ==
  /\ Len(ls[k]) = 2 * width + 3
  /\ ls[k][1] = Vertical
  /\ ls[k][2 * width + 3] = Vertical
  /\ ls[k][2] = Space
  /\ \A x \in 0..(width - 1) :
       /\ ls[k][2 + 2 * x + 1] \in {FullBlock, Space}
       /\ ls[k][2 + 2 * x + 2] = Space

\* the standard output o holds whole frames only, each one a top border with
\* 2*width+1 line glyphs, height content rows and a bottom border like the top
WellFramed(o, width, height) ==
  LET ls == Lines(o)
      n == FrameCount(o)
  IN /\ Len(ls) = n * (height + 2)
     /\ \A f \in 0..(n - 1) :
          LET top == f * (height + 2) + 1
          IN /\ SelectSeq(ls[top], NotEscape) = <<TopLeft>> \o Rule(2 * width + 1) \o <<TopRight>>
             /\ \A y \in 0..(height - 1) : IsContentRow(ls, top + 1 + y, width)
             /\ ls[top + height + 1] = <<BottomLeft>> \o Rule(2 * width + 1) \o <<BottomRight>>

\* the frame rendered last in o shows alive exactly the cells alive in c
LastFrameShows(o, c, width, height) ==
  LET ls == Lines(o)
  IN ShownAlive(ls, Len(ls) - height, width, height)
       = {a \in CellsOf(width, height) : c[a[2]][a[1]] = 1}

\* C13: every frame rendered by Display or MakeItSo is a top border, exactly
\* height content rows and a bottom border; each content row has 2*width+1
\* columns between its border glyphs (a space, then per cell its glyph and a
\* space), as many as each border has line glyphs; the frame just rendered
\* shows a block for every live cell and a space for every dead one.
C13_FrameWidth ==
  /\ WellFramed(out.bool, Width, Height)
  /\ WellFramed(out.bit, Width, Height)
  /\ WellFramed(out.byte, Width, Height)
  /\ WellFramed(out.map, Width, Height)
  /\ WellFramed(out.buf, Width, Height)
  /\ last.op = "MakeItSo" =>
       /\ LastFrameShows(out.bool, gBool.cells, Width, Height)
       /\ LastFrameShows(out.bit, BitView(gBit), Width, Height)
       /\ LastFrameShows(out.byte, gByte.cells, Width, Height)
       /\ LastFrameShows(out.map, gMap.cells, Width, Height)
       /\ LastFrameShows(out.buf, BufView(gBuf), Width, Height)

\* two frames of a grid two cells wide have been rendered, the last one
\* after an advance and with a live cell in it
C13_Witness ==
  /\ last.op = "MakeItSo"
  /\ gen >= 1
  /\ Width = 2
  /\ FrameCount(out.bit) = 2
  /\ FrameCount(out.bool) = 2
  /\ \E a \in Cells : gByte.cells[a[2]][a[1]] = 1

\* every frame of the standard output o starts right after a cursor-home
\* sequence, and o holds no clear-screen sequence
HomeNoClear(o) ==
  /\ \A i \in 1..Len(o) : o[i] = TopLeft => (i > 1 /\ o[i - 1] = CursorHome)
  /\ \A i \in 1..Len(o) : o[i] # ClearScreen

\* the same of the four versions that render with MakeItSo
MakeItSoHomeNoClear ==
  /\ HomeNoClear(out.bit)
  /\ HomeNoClear(out.byte)
  /\ HomeNoClear(out.map)
  /\ HomeNoClear(out.buf)

\* C14: every frame written by Display, as run calls it, or by MakeItSo comes
\* right after the cursor-home escape sequence, and no clear-screen escape
\* sequence is ever written.
C14_CursorHomeNoClear ==
  /\ HomeNoClear(out.bool)
  /\ MakeItSoHomeNoClear

\* the coordinates tried on a grid without cells
Around == ((-2)..(Width + 1)) \X ((-2)..(Height + 1))

\* no glyph of a live cell in the standard output o
NoCellGlyph(o) == \A i \in 1..Len(o) : o[i] # FullBlock

\* C15: on a grid created with width 0 or height 0, no operation indexes a
\* slice out of range or divides by zero, whatever the coordinates; GetCell
\* returns 0 everywhere; every render is a frame without content cells and
\* without the glyph of a live cell.
C15_EmptyGrid ==
  (Width = 0 \/ Height = 0) =>
    /\ \A a \in Around :
         /\ ~Bit_indexFault(gBit, a[1], a[2])
         /\ ~IndexFault(gBool.width, gBool.height, gBool.cells, a[1], a[2])
         /\ ~IndexFault(gByte.width, gByte.height, gByte.cells, a[1], a[2])
         /\ ~IndexFault(gMap.width, gMap.height, gMap.cells, a[1], a[2])
         /\ ~IndexFault(gBuf.width, gBuf.height, BufView(gBuf), a[1], a[2])
         /\ ~IndexFault(gBuf.width, gBuf.height, gBuf.arr[gBuf.buffer], a[1], a[2])
    /\ ~Buf_divideFault(gBuf)
    /\ \A a \in Around :
         /\ Bool_GetCell(gBool, a[1], a[2]) = 0
         /\ Bit_GetCell(gBit, a[1], a[2]) = 0
         /\ Byte_GetCell(gByte, a[1], a[2]) = 0
         /\ Map_GetCell(gMap, a[1], a[2]) = 0
         /\ Buf_GetCell(gBuf, a[1], a[2]) = 0
    /\ \A o \in {out.bool, out.bit, out.byte, out.map, out.buf} :
         NoCellGlyph(o) /\ WellFramed(o, Width, Height)

\* a grid of width 0 and height 2 after SetCell, Randomize, BoldlyGo and a
\* render
C15_Witness ==
  /\ Width = 0
  /\ Height = 2
  /\ nset >= 2
  /\ gen >= 1
  /\ last.op = "MakeItSo"
  /\ Len(Lines(out.bit)) = 4
  /\ Len(Lines(out.bool)) = 4

\* ---- the neighbour cache ----

\* the cells of the 3x3 neighbourhood of (x, y) that lie in the grid
Neighbourhood(x, y) == {c \in Cells : c[1] - x \in (-1)..1 /\ c[2] - y \in (-1)..1}

\* the validity flag of the entry of cell c, false when there is no entry
Map_valid(grid, c) == MapBool(grid.cacheValid, Map_getCacheKey(grid, c[1], c[2]))

Buf_valid(grid, c) == MapBool(grid.cacheValid, Buf_getCacheKey(grid, c[1], c[2]))

Map_keys(grid, cs) == {Map_getCacheKey(grid, c[1], c[2]) : c \in cs}

Buf_keys(grid, cs) == {Buf_getCacheKey(grid, c[1], c[2]) : c \in cs}

\* the validity flags of the map after agree with those of the map before on
\* every key outside the set keys
SameValidityOutside(before, after, keys) ==
  \A k \in (DOMAIN before \cup DOMAIN after) \ keys : MapBool(after, k) = MapBool(before, k)

\* the step is a SetCell inside the grid
SetInBoundsStep ==
  /\ nset' = nset + 1
  /\ last'.op = "SetCell"
  /\ InBounds(gByte, last'.x, last'.y)

\* C16: in the two cached versions, an in-bounds SetCell(x, y, v) that changes
\* the stored value leaves invalid the entry of (x, y) and of each of its
\* neighbours in the grid and changes the validity of no other entry; an
\* in-bounds SetCell of the value already stored changes no entry, neither
\* flag nor count.
C16_SetCellInvalidation ==
  [][SetInBoundsStep =>
       LET x == last'.x
           y == last'.y
           hood == Neighbourhood(x, y)
       IN /\ IF gMap.cells[y][x] # last'.v
               THEN /\ \A c \in hood : ~Map_valid(gMap', c)
                    /\ SameValidityOutside(gMap.cacheValid, gMap'.cacheValid,
                                           Map_keys(gMap, hood))
               ELSE /\ gMap'.cacheValid = gMap.cacheValid
                    /\ gMap'.neighborCache = gMap.neighborCache
          /\ IF BufView(gBuf)[y][x] # last'.v
               THEN /\ \A c \in hood : ~Buf_valid(gBuf', c)
                    /\ SameValidityOutside(gBuf.cacheValid, gBuf'.cacheValid,
                                           Buf_keys(gBuf, hood))
               ELSE /\ gBuf'.cacheValid = gBuf.cacheValid
                    /\ gBuf'.neighborCache = gBuf.neighborCache]_vars

\* after an advance has filled both caches, a SetCell that made a cell alive
\* has left the entries of its neighbourhood invalid and others valid
C16_Witness ==
  /\ last.op = "SetCell"
  /\ InBounds(gByte, last.x, last.y)
  /\ gen >= 1
  /\ last.v = 1
  /\ \A c \in Neighbourhood(last.x, last.y) :
       /\ Map_getCacheKey(gMap, c[1], c[2]) \in DOMAIN gMap.cacheValid
       /\ ~Map_valid(gMap, c)
       /\ Buf_getCacheKey(gBuf, c[1], c[2]) \in DOMAIN gBuf.cacheValid
       /\ ~Buf_valid(gBuf, c)
  /\ \E c \in Cells : Map_valid(gMap, c) /\ Buf_valid(gBuf, c)

\* the cells whose state differs between the 2D arrays before and after
Changed(before, after) == {c \in Cells : before[c[2]][c[1]] # after[c[2]][c[1]]}

\* C17: when BoldlyGo of the double-buffered version returns, the entries of
\* every cell whose state differs from the previous generation, and of every
\* neighbour of such a cell in the grid, are flagged invalid.
C17_ChangedInvalidated ==
  [][gen' = gen + 1 =>
       \A c \in Changed(BufView(gBuf), BufView(gBuf')) :
         \A d \in Neighbourhood(c[1], c[2]) : ~Buf_valid(gBuf', d)]_vars

\* an advance has changed a cell of a grid wider than high; the entries
\* around it are invalid and an entry elsewhere is still valid
C17_Witness ==
  /\ gen >= 1
  /\ Width > Height
  /\ \E c \in Changed(gBuf.arr[gBuf.buffer], BufView(gBuf)) :
       \A d \in Neighbourhood(c[1], c[2]) :
         /\ Buf_getCacheKey(gBuf, d[1], d[2]) \in DOMAIN gBuf.cacheValid
         /\ ~Buf_valid(gBuf, d)
  /\ \E c \in Cells : Buf_valid(gBuf, c)

Neighbours(c) == Neighbourhood(c[1], c[2]) \ {c}

\* C19: in the grid returned by BoldlyGo of the new-grid cached version, every
\* valid entry belongs to a cell none of whose neighbours changed state in the
\* step and holds the count that a fresh scan of the returned grid gives; a
\* cell with a changed neighbour has no valid entry.
C19_CarriedEntries ==
  [][gen' = gen + 1 =>
       LET changed == Changed(gMap.cells, gMap'.cells)
       IN \A c \in Cells :
            /\ Map_valid(gMap', c) =>
                 /\ Neighbours(c) \cap changed = {}
                 /\ MapInt(gMap'.neighborCache, Map_getCacheKey(gMap', c[1], c[2]))
                      = LiveNeighbours(gMap'.cells, Width, Height, c[1], c[2])
            /\ Neighbours(c) \cap changed # {} => ~Map_valid(gMap', c)]_vars

\* every cell of the 2D array c holds 0 or 1
Binary(c) == \A a \in Cells : c[a[2]][a[1]] \in {0, 1}

\* C20: whatever the sequence of SetCell (with any byte as value), Randomize
\* and BoldlyGo, every cell of every version holds 0 or 1, and the neighbour
\* scan of every cell gives a count in 0..8.
C20_CellsBinary ==
  /\ Binary(gBool.cells)
  /\ Binary(BitView(gBit))
  /\ Binary(gByte.cells)
  /\ Binary(gMap.cells)
  /\ Binary(BufView(gBuf))
  /\ \A a \in Cells :
       /\ Bit_scanForLifeforms(gBit, a[1], a[2]) \in 0..8
       /\ Byte_scanForLifeforms(gByte, a[1], a[2]) \in 0..8

\* the same of the version of grid.go and of the bit-packed version only
BitCellsBinary ==
  /\ Binary(gBool.cells)
  /\ Binary(BitView(gBit))
  /\ \A a \in Cells : Bit_scanForLifeforms(gBit, a[1], a[2]) \in 0..8

\* ---- the bit-packed grid against the byte grid ----

\* GetCell of the two versions agrees at every coordinate, those around the
\* grid included
SameCells ==
  \A x \in (-1)..Width, y \in (-1)..Height :
    Bit_GetCell(gBit, x, y) = Byte_GetCell(gByte, x, y)

\* C21: after the same sequence of SetCell (values 0 and 1) and BoldlyGo on
\* grids of the same dimensions, GetCell of the bit-packed version and of the
\* byte version return the same value at every coordinate, and an in-bounds
\* SetCell on the bit-packed grid changes what GetCell returns for no other
\* cell; also when the grid has more than 64 cells, not a multiple of 64,
\* and a row lies across two words.
C21_BitEqualsByte ==
  /\ []SameCells
  /\ [][SetInBoundsStep =>
          \A c \in Cells \ {<<last'.x, last'.y>>} :
            Bit_GetCell(gBit', c[1], c[2]) = Bit_GetCell(gBit, c[1], c[2])]_vars

\* a grid of more than 64 cells, not a multiple of 64, with a row across two
\* words: after an advance, cells of the first word and of the second are
\* alive in both versions
C21_Witness ==
  /\ Width * Height > WordBits
  /\ (Width * Height) % WordBits # 0
  /\ WordBits % Width # 0
  /\ gen >= 1
  /\ SliceLen(gBit.cells) = 2
  /\ gBit.cells[0] # {}
  /\ gBit.cells[1] # {}
  /\ \E c \in Cells : gByte.cells[c[2]][c[1]] = 1 /\ c[2] * Width + c[1] >= WordBits

\* ---- BoldlyGo twice on the same grid ----

\* the cells that the advance of the uncached byte version returns for the
\* cells of grid
UncachedAdvance(grid) ==
  Byte_BoldlyGo([width |-> grid.width, height |-> grid.height, cells |-> grid.cells]).nextGen.cells

\* C22: two calls of BoldlyGo of the new-grid cached version on the same
\* grid, with nothing changing the grid in between, return grids with the
\* same cells, and these are the cells that the uncached advance returns for
\* the cells of that grid.
C22_TwiceSameAsUncached ==
  last.op = "BoldlyGoAgain" =>
    /\ src.again.cells = gMap.cells
    /\ gMap.cells = UncachedAdvance(src.map)
    /\ src.again.cells = UncachedAdvance(src.map)

\* the two calls return the same cells, whatever the cache held
TwiceSame == last.op = "BoldlyGoAgain" => src.again.cells = gMap.cells

====
